---- MODULE Spec2Model ----
(***************************************************************************)
(* jira-analysis.  Business-day arithmetic (src/date.go): DateOf,          *)
(* Date.NextDate and Date.BusinessDaysUntil, over Go time.Time values;     *)
(* and of src/main.go: cachedGet, the page-fetch loop of main and the      *)
(* status scan of main, each under a specification of its own.             *)
(*                                                                         *)
(* A time.Time is modelled as [sec, nsec, loc]: Unix seconds, nanoseconds  *)
(* within the second, and the name of its *time.Location.  A location is   *)
(* its table of zone transitions, as in Go's time package.  All arithmetic *)
(* is in seconds, as in the code (offsets are seconds east of UTC).        *)
(***************************************************************************)
EXTENDS Integers, Sequences, FiniteSets, TLC

\* The call DateOf(start).BusinessDaysUntil(DateOf(until)).
VARIABLES start, until, date, untilDate, untilTime, d, days, result, pc

\* One call of cachedGet: its environment (the value of JIRA_NOCACHE, the
\* cache file as the call finds it, its age in minutes, and the data the
\* file holds), its locals, what it did and what it returned.
VARIABLES noCacheEnv, fileState, fileAge, fileData, cacheHit, cacheAvailable,
          net, httpRequests, cacheWrites, issuesJsonBody, err, cpc

\* The page-fetch loop of main: its two counters, the startAt values it has
\* requested so far, and the number of issues appended.
VARIABLES startAt, total, requested, issueCount, ppc

\* The status scan of main for one issue: the issue (its epic name and the
\* entries of its changelog still to scan), its computed fields, and what
\* became of it.
VARIABLES issue, rest, Status, StatusTime, Assigned, spc

dateVars == <<start, until, date, untilDate, untilTime, d, days, result, pc>>

cacheVars == <<noCacheEnv, fileState, fileAge, fileData, cacheHit, cacheAvailable,
               net, httpRequests, cacheWrites, issuesJsonBody, err, cpc>>

pageVars == <<startAt, total, requested, issueCount, ppc>>

statusVars == <<issue, rest, Status, StatusTime, Assigned, spc>>

vars == <<dateVars, cacheVars, pageVars, statusVars>>

----------------------------------------------------------------------------
(* Bounds of the explored inputs: instants are drawn from the days         *)
(* 2018-10-29 (day 0, a Monday) .. 2018-10-29 + MaxUntilDay, UTC.          *)

MaxStartDay == 6

MaxUntilDay == 18

\* A second window, for a location whose clock moves on a working day:
\* 2018-03-20 (a Tuesday) .. 2018-03-20 + MaxShiftDay, UTC.
MaxShiftDay == 3

\* Bounds of the explored page responses: startAt and total of a page are
\* drawn from 0..MaxPageField, its number of issues from 0..MaxPageIssues,
\* and the loop is followed for at most MaxRequests requests.
MaxPageField == 3

MaxPageIssues == 2

MaxRequests == 3

\* Bounds of the explored changelogs: at most MaxHistories history entries
\* of at most MaxItems items each.
MaxHistories == 2

MaxItems == 1

----------------------------------------------------------------------------
(* Go time package: durations and the calendar                             *)

SecondsPerMinute == 6 * 10
SecondsPerHour == 60 * SecondsPerMinute
SecondsPerDay == 24 * SecondsPerHour

\* time.Weekday values
Sunday == 1 - 1
Monday == Sunday + 1
Friday == Sunday + 5
Saturday == Sunday + 6

\* Days from 1970-01-01 to 2018-01-01: 48 years, 12 of them leap years.
DaysTo2018 == 48 * 365 + 12

\* Days before the first of each month in a non-leap year (2018, 2019).
DaysBefore == <<0, 31, 59, 90, 120, 151, 181, 212, 243, 273, 304, 334, 365>>

\* The bounds of a zone's validity when there is no transition (alpha, omega).
Omega == 2147483646 + 1
Alpha == 0 - Omega

Locations == {"America/Chicago", "America/Sao_Paulo", "Asia/Kolkata", "-05:00", "-06:00"}

\* The zone transitions of each location inside the explored window:
\* America/Chicago leaves daylight time on Sun 2018-11-04 at 07:00 UTC
\* (02:00 CDT -> 01:00 CST); America/Sao_Paulo enters it on Sun 2018-11-04
\* at 03:00 UTC (00:00 -03 -> 01:00 -02).  The two numeric names are the
\* fixed zones time.Parse builds for an RFC 3339 offset.  Asia/Tehran enters
\* daylight time on Thu 2018-03-22 at 20:30 UTC of the day before
\* (00:00 +0330 -> 01:00 +0430).
ZoneTx(loc) ==
    CASE loc = "America/Chicago" ->
           << [when |-> Alpha, offset |-> 0 - 5 * SecondsPerHour],
              [when |-> 1541314800, offset |-> 0 - 6 * SecondsPerHour] >>
      [] loc = "America/Sao_Paulo" ->
           << [when |-> Alpha, offset |-> 0 - 3 * SecondsPerHour],
              [when |-> 1541300400, offset |-> 0 - 2 * SecondsPerHour] >>
      [] loc = "Asia/Kolkata" ->
           << [when |-> Alpha, offset |-> 5 * SecondsPerHour + 30 * SecondsPerMinute] >>
      [] loc = "Asia/Tehran" ->
           << [when |-> Alpha, offset |-> 3 * SecondsPerHour + 30 * SecondsPerMinute],
              [when |-> 1521664200, offset |-> 4 * SecondsPerHour + 30 * SecondsPerMinute] >>
      [] loc = "-05:00" ->
           << [when |-> Alpha, offset |-> 0 - 5 * SecondsPerHour] >>
      [] loc = "-06:00" ->
           << [when |-> Alpha, offset |-> 0 - 6 * SecondsPerHour] >>
      [] OTHER ->
           << [when |-> Alpha, offset |-> 0] >>

\* The index of the transition in effect at the UTC instant sec: the last
\* one whose time is not after sec (the binary search of Location.lookup).
TxIndex(tx, sec) ==
    CHOOSE k \in 1..Len(tx) :
        tx[k].when <= sec /\ (k = Len(tx) \/ sec < tx[k + 1].when)

\* The zone entered by transition i, with the half-open interval
\* [start, end) of instants over which it is in use.
ZoneAt(tx, i) ==
    [offset |-> tx[i].offset,
     start |-> tx[i].when,
     end |-> IF i = Len(tx) THEN Omega ELSE tx[i + 1].when]

\* Location.lookup: the zone in use at the UTC instant sec.
Lookup(loc, sec) == ZoneAt(ZoneTx(loc), TxIndex(ZoneTx(loc), sec))

\* t.Zone(): the offset in seconds east of UTC in effect at t.
ZoneOffset(t) == Lookup(t.loc, t.sec).offset

\* t.Location()
Location(t) == t.loc

\* t.In(loc): the same instant, displayed in loc.
In(t, loc) == [sec |-> t.sec, nsec |-> t.nsec, loc |-> loc]

\* t.Add(seconds * time.Second)
Add(t, seconds) == [sec |-> t.sec + seconds, nsec |-> t.nsec, loc |-> t.loc]

\* t.Before(u): comparison of the instants.
Before(t, u) == t.sec < u.sec \/ (t.sec = u.sec /\ t.nsec < u.nsec)

\* Seconds since 1970-01-01 00:00:00 on t's local wall clock.
LocalSeconds(t) == t.sec + ZoneOffset(t)

\* Days since 1970-01-01 of t's local calendar date.
LocalDay(t) == LocalSeconds(t) \div SecondsPerDay

\* t.Weekday(): 1970-01-01 was a Thursday.
Weekday(t) == (LocalDay(t) + 4) % 7

\* The month (1..12) holding day yday (0..364) of a non-leap year.
MonthOf(yday) ==
    CHOOSE k \in 1..12 : DaysBefore[k] <= yday /\ yday < DaysBefore[k + 1]

\* <<year, month, day>> of day n counted from 2018-01-01.
CivilOfDay(n) ==
    <<2018 + (n \div 365), MonthOf(n % 365), (n % 365) - DaysBefore[MonthOf(n % 365)] + 1>>

\* t.Date(): <<year, month, day>> of t in its location.
CivilDate(t) == CivilOfDay(LocalDay(t) - DaysTo2018)

\* The offset time.Date settles on for the wall clock reading unix (seconds
\* counted as if the clock were UTC), z being the zone looked up at unix:
\* z's offset when the adjusted instant lies in z's validity, otherwise the
\* offset looked up at the adjusted instant.
DateOffset(loc, unix, z) ==
    IF z.offset # 0 /\ (unix - z.offset < z.start \/ unix - z.offset >= z.end)
    THEN Lookup(loc, unix - z.offset).offset
    ELSE z.offset

\* The wall clock reading of the given fields, in seconds since
\* 1970-01-01 00:00:00 of that clock.
WallSeconds(y, m, day, hour, min, s) ==
    (DaysTo2018 + (y - 2018) * 365 + DaysBefore[m] + (day - 1)) * SecondsPerDay
        + hour * SecondsPerHour + min * SecondsPerMinute + s

\* The instant at which loc's wall clock reads unix.
AtWallSeconds(unix, ns, loc) ==
    [sec |-> unix - DateOffset(loc, unix, Lookup(loc, unix)), nsec |-> ns, loc |-> loc]

\* time.Date(y, m, day, hour, min, s, ns, loc): the instant whose wall clock
\* in loc reads the given fields.
GoDate(y, m, day, hour, min, s, ns, loc) ==
    AtWallSeconds(WallSeconds(y, m, day, hour, min, s), ns, loc)

----------------------------------------------------------------------------
(* src/date.go                                                             *)

\* The hour of day every Date is anchored at.
AnchorHour == 6

\* The hours NextDate adds before normalising again.
NextDateHours == 25

\* time.Date(y, m, d, hour, 0, 0, 0, l) for ymd = <<y, m, d>>.
DateAt(ymd, hour, l) == GoDate(ymd[1], ymd[2], ymd[3], hour, 0, 0, 0, l)

\* A variant that anchors the date at midnight.
DateOfMidnight(t) == DateAt(CivilDate(t), 0, Location(t))

\* A variant that truncates to the hour and keeps the hour of day.
DateOfKeepHour(t) ==
    DateAt(CivilDate(t), (LocalSeconds(t) % SecondsPerDay) \div SecondsPerHour, Location(t))

\* A variant that builds the date in UTC instead of t's location.
DateOfUTC(t) == DateAt(CivilDate(t), AnchorHour, "UTC")

\* func DateOf(t time.Time) Date
DateOf(t) == DateAt(CivilDate(t), AnchorHour, Location(t))

\* A variant that does not normalise after adding.
NextDateNoNormalize(dt) == Add(dt, NextDateHours * SecondsPerHour)

\* func (date Date) NextDate() Date
NextDate(dt) == DateOf(Add(dt, NextDateHours * SecondsPerHour))

\* A variant that compares the two dates without aligning their offsets.
UntilTimeNoAlign(dt, un) == In(un, Location(dt))

\* untilTime of BusinessDaysUntil: until shown in the start's location and
\* shifted by the difference of the two offsets.
UntilTime(dt, un) ==
    Add(In(un, Location(dt)), ZoneOffset(un) - ZoneOffset(dt))

\* if d.Time.Weekday() == day { d = d.NextDate() }
SkipIf(day, cur) == IF Weekday(cur) = day THEN NextDate(cur) ELSE cur

\* A variant of the loop body that tests for Sunday before Saturday.
LoopBodySundayFirst(cur) == SkipIf(Saturday, SkipIf(Sunday, NextDate(cur)))

\* A variant of the loop body that does not skip the weekend.
LoopBodyNoSkip(cur) == NextDate(cur)

\* The cursor after one iteration of the loop of BusinessDaysUntil.
LoopBody(cur) == SkipIf(Sunday, SkipIf(Saturday, NextDate(cur)))

\* The loop of BusinessDaysUntil, run to its exit.
RECURSIVE Loop(_, _, _)
Loop(cur, ut, n) ==
    IF Before(cur, ut) THEN Loop(LoopBody(cur), ut, n + 1) ELSE n

\* func (date Date) BusinessDaysUntil(until Date) int
BusinessDaysUntil(dt, un) == Loop(dt, UntilTime(dt, un), 0)

----------------------------------------------------------------------------
(* src/main.go: cachedGet                                                  *)

\* The age in minutes past which a cache file is stale (time.Hour).
StaleAfter == 60

\* The first HTTP status code treated as a failure.
StatusLimit == 300

\* Values of the environment variable JIRA_NOCACHE ("" when unset).
EnvValues == {"", "0", "1", "-1", "yes"}

\* strconv.Atoi on those values: <<value, ok>>.
Atoi(str) == CASE str = "0" -> <<0, TRUE>>
               [] str = "1" -> <<1, TRUE>>
               [] str = "-1" -> <<0 - 1, TRUE>>
               [] OTHER -> <<0, FALSE>>

\* A variant that returns 1 when the value does not parse.
GetEnvIntOne(str, defaultValue) == IF Atoi(str)[2] THEN Atoi(str)[1] ELSE 1

\* func getEnvInt(key string, defaultValue int) int
GetEnvInt(str, defaultValue) == IF Atoi(str)[2] THEN Atoi(str)[1] ELSE defaultValue

\* The cache file: absent; in a place os.Stat cannot reach (an error other
\* than not-exist, and no read either); present but not readable; readable.
FileStates == {"absent", "noaccess", "unreadable", "readable"}

\* Ages of the cache file in minutes (time.Now() minus its ModTime).
FileAges == {0, 59, 60, 61, 1440}

\* statErr == nil || !os.IsNotExist(statErr)
StatHit(fs) == fs # "absent"

\* stat != nil: os.Stat returned a FileInfo.
StatInfo(fs) == fs \in {"unreadable", "readable"}

\* A variant that takes the file for stale when it is younger than an hour.
ModStaleYounger(age) == age < StaleAfter

\* stat.ModTime().Before(time.Now().Add(-time.Hour))
ModStale(age) == age > StaleAfter

\* The absent body and the two contents a body can have.
NilBody == "nil"
CachedContent == "cached content"
ResponseContent == "response body"

\* respondCache: the cached content, or nil when the cache is not
\* available or the file cannot be read.
RespondCache(available, fs, data) ==
    IF ~available THEN NilBody
    ELSE IF fs = "readable" THEN data
    ELSE NilBody

\* What the network does with the request: http.NewRequest refuses the URL;
\* cl.Do fails; or a response arrives with a status code and a body that
\* can be read or not.
NetOutcomes ==
    {[kind |-> "badurl", status |-> 0, readOk |-> FALSE],
     [kind |-> "transport", status |-> 0, readOk |-> FALSE]}
        \cup [kind : {"response"}, status : {200, 299, 300, 404, 500}, readOk : BOOLEAN]

NoNet == [kind |-> "none", status |-> 0, readOk |-> FALSE]

\* A variant that lets status 300 through.
StatusFailsAbove(code) == code > StatusLimit

\* rsp.StatusCode >= 300
StatusFails(code) == code >= StatusLimit

\* The error the fetch ends with for outcome o, "nil" when it succeeds.
FetchError(o) ==
    IF o.kind = "transport" THEN "transport error"
    ELSE IF StatusFails(o.status) THEN "HTTP response"
    ELSE IF ~o.readOk THEN "read error"
    ELSE "nil"

\* No call of cachedGet in progress: the state of its variables in the
\* other specifications.
CacheIdle ==
    /\ noCacheEnv = ""
    /\ fileState = "absent"
    /\ fileAge = 0
    /\ fileData = NilBody
    /\ cacheHit = FALSE
    /\ cacheAvailable = FALSE
    /\ net = NoNet
    /\ httpRequests = 0
    /\ cacheWrites = 0
    /\ issuesJsonBody = NilBody
    /\ err = "nil"
    /\ cpc = "idle"

\* No page-fetch loop in progress: the state of its variables in the
\* other specifications.
PagesIdle ==
    /\ startAt = 0
    /\ total = 0
    /\ requested = <<>>
    /\ issueCount = 0
    /\ ppc = "idle"

\* An issue with an empty changelog.
NoIssue == [epicName |-> "", histories |-> <<>>]

\* An instant of the status scan, as its day counted from 1970-01-01 UTC and
\* its second within that day: time.Unix(sec, 0).
UnixTime(sec) == [day |-> sec \div SecondsPerDay, sec |-> sec % SecondsPerDay]

\* time.Unix(0, 0)
UnixZero == UnixTime(0)

\* The zero time.Time, 0001-01-01T00:00:00Z (Unix second -62135596800): the
\* StatusTime of a decoded issue, which no JSON field sets.
ZeroTime == [day |-> -719162, sec |-> 0]

\* No status scan in progress: the state of its variables in the other
\* specifications.
StatusIdle ==
    /\ issue = NoIssue
    /\ rest = <<>>
    /\ Status = ""
    /\ StatusTime = ZeroTime
    /\ Assigned = ""
    /\ spc = "idle"

----------------------------------------------------------------------------
(* The explored inputs                                                     *)

\* 2018-10-29 00:00:00 UTC, a Monday.
WindowStart == (DaysTo2018 + 301) * SecondsPerDay

\* Times of day <<seconds, nanoseconds>> (UTC) of the explored instants.
Clocks == { <<6 * SecondsPerHour + 30 * SecondsPerMinute, 0>>,
            <<23 * SecondsPerHour + 59 * SecondsPerMinute + 59, 999999999>> }

Instants(maxDay) ==
    { [sec |-> WindowStart + n * SecondsPerDay + c[1], nsec |-> c[2], loc |-> l] :
        n \in 0..maxDay, c \in Clocks, l \in Locations }

\* 2018-03-20 00:00:00 UTC, a Tuesday.
ShiftWindowStart == (DaysTo2018 + 78) * SecondsPerDay

\* The instants of the second window, in Asia/Tehran.
ShiftInstants(maxDay) ==
    { [sec |-> ShiftWindowStart + n * SecondsPerDay + c[1], nsec |-> c[2],
       loc |-> "Asia/Tehran"] : n \in 0..maxDay, c \in Clocks }

\* The pairs <<start, until>> a call is explored with: both instants from
\* the same window.
InputPairs ==
    (Instants(MaxStartDay) \X Instants(MaxUntilDay))
        \cup (ShiftInstants(MaxShiftDay) \X ShiftInstants(MaxShiftDay))

\* The zero value of the variables not yet assigned.
NoTime == [sec |-> 0, nsec |-> 0, loc |-> "UTC"]

----------------------------------------------------------------------------
(* The call DateOf(start).BusinessDaysUntil(DateOf(until)), step by step   *)

Init ==
    /\ \E p \in InputPairs : start = p[1] /\ until = p[2]
    /\ date = NoTime
    /\ untilDate = NoTime
    /\ untilTime = NoTime
    /\ d = NoTime
    /\ days = 0
    /\ result = 0
    /\ pc = "call"
    /\ CacheIdle
    /\ PagesIdle
    /\ StatusIdle

\* The caller normalises both instants (src/main.go:301,337; the tests).
Normalize ==
    /\ pc = "call"
    /\ date' = DateOf(start)
    /\ untilDate' = DateOf(until)
    /\ pc' = "enter"
    /\ UNCHANGED <<start, until, untilTime, d, days, result>>
    /\ UNCHANGED <<cacheVars, pageVars, statusVars>>

\* src/date.go:24-29
Enter ==
    /\ pc = "enter"
    /\ days' = 0
    /\ d' = date
    /\ untilTime' = UntilTime(date, untilDate)
    /\ pc' = "loop"
    /\ UNCHANGED <<start, until, date, untilDate, result>>
    /\ UNCHANGED <<cacheVars, pageVars, statusVars>>

\* src/date.go:32-44, one iteration
Iterate ==
    /\ pc = "loop"
    /\ Before(d, untilTime)
    /\ days' = days + 1
    /\ d' = LoopBody(d)
    /\ UNCHANGED <<start, until, date, untilDate, untilTime, result, pc>>
    /\ UNCHANGED <<cacheVars, pageVars, statusVars>>

\* src/date.go:32,48, the loop exits
Return ==
    /\ pc = "loop"
    /\ ~Before(d, untilTime)
    /\ result' = days
    /\ pc' = "done"
    /\ UNCHANGED <<start, until, date, untilDate, untilTime, d, days>>
    /\ UNCHANGED <<cacheVars, pageVars, statusVars>>

Next == Normalize \/ Enter \/ Iterate \/ Return

Spec == Init /\ [][Next]_vars

----------------------------------------------------------------------------
(* One call of cachedGet, step by step                                     *)

DateIdle ==
    /\ start = NoTime
    /\ until = NoTime
    /\ date = NoTime
    /\ untilDate = NoTime
    /\ untilTime = NoTime
    /\ d = NoTime
    /\ days = 0
    /\ result = 0
    /\ pc = "idle"

InitCache ==
    /\ DateIdle
    /\ PagesIdle
    /\ StatusIdle
    /\ noCacheEnv \in EnvValues
    /\ fileState \in FileStates
    /\ fileAge \in FileAges
    /\ fileData = (IF fileState = "absent" THEN NilBody ELSE CachedContent)
    /\ cacheHit = FALSE
    /\ cacheAvailable = FALSE
    /\ net = NoNet
    /\ httpRequests = 0
    /\ cacheWrites = 0
    /\ issuesJsonBody = NilBody
    /\ err = "nil"
    /\ cpc = "call"

\* The value cacheHit has after src/main.go:127-137.
CacheHitAfterStat(env, fs, age) ==
    /\ GetEnvInt(env, 0) = 0
    /\ StatHit(fs)
    /\ ~(StatInfo(fs) /\ ModStale(age))

\* src/main.go:125-137
CheckCache ==
    /\ cpc = "call"
    /\ cacheAvailable' = (GetEnvInt(noCacheEnv, 0) = 0 /\ StatHit(fileState))
    /\ cacheHit' = CacheHitAfterStat(noCacheEnv, fileState, fileAge)
    /\ cpc' = "checked"
    /\ UNCHANGED <<noCacheEnv, fileState, fileAge, fileData, net, httpRequests,
                   cacheWrites, issuesJsonBody, err>>
    /\ UNCHANGED <<dateVars, pageVars, statusVars>>

\* src/main.go:154-158: the cache is fresh and the file can be read.
ReturnFresh ==
    /\ cpc = "checked"
    /\ cacheHit
    /\ RespondCache(cacheAvailable, fileState, fileData) # NilBody
    /\ issuesJsonBody' = RespondCache(cacheAvailable, fileState, fileData)
    /\ err' = "nil"
    /\ cpc' = "done"
    /\ UNCHANGED <<noCacheEnv, fileState, fileAge, fileData, cacheHit, cacheAvailable,
                   net, httpRequests, cacheWrites>>
    /\ UNCHANGED <<dateVars, pageVars, statusVars>>

\* src/main.go:154-160: the cache is fresh but the file cannot be read.
FreshUnreadable ==
    /\ cpc = "checked"
    /\ cacheHit
    /\ RespondCache(cacheAvailable, fileState, fileData) = NilBody
    /\ cacheHit' = FALSE
    /\ UNCHANGED <<noCacheEnv, fileState, fileAge, fileData, cacheAvailable,
                   net, httpRequests, cacheWrites, issuesJsonBody, err, cpc>>
    /\ UNCHANGED <<dateVars, pageVars, statusVars>>

\* src/main.go:163-167: http.NewRequest refuses the URL, log.Fatal.
RequestFatal ==
    /\ cpc = "checked"
    /\ ~cacheHit
    /\ net' \in {o \in NetOutcomes : o.kind = "badurl"}
    /\ cpc' = "fatal"
    /\ UNCHANGED <<noCacheEnv, fileState, fileAge, fileData, cacheHit, cacheAvailable,
                   httpRequests, cacheWrites, issuesJsonBody, err>>
    /\ UNCHANGED <<dateVars, pageVars, statusVars>>

\* src/main.go:171-204: the request is made and fails (cl.Do fails, the
\* status is 300 or more, or the body cannot be read); the cached content
\* is returned when there is one, the error otherwise.
FetchFails ==
    /\ cpc = "checked"
    /\ ~cacheHit
    /\ \E o \in NetOutcomes :
          /\ o.kind # "badurl"
          /\ FetchError(o) # "nil"
          /\ net' = o
          /\ issuesJsonBody' = RespondCache(cacheAvailable, fileState, fileData)
          /\ err' = (IF RespondCache(cacheAvailable, fileState, fileData) # NilBody
                     THEN "nil" ELSE FetchError(o))
    /\ httpRequests' = httpRequests + 1
    /\ cpc' = "done"
    /\ UNCHANGED <<noCacheEnv, fileState, fileAge, fileData, cacheHit, cacheAvailable,
                   cacheWrites>>
    /\ UNCHANGED <<dateVars, pageVars, statusVars>>

\* src/main.go:171-211: the request succeeds; the body is written to the
\* cache file (a failure to write is ignored) and returned.
FetchSucceeds ==
    /\ cpc = "checked"
    /\ ~cacheHit
    /\ \E o \in NetOutcomes :
          /\ o.kind # "badurl"
          /\ FetchError(o) = "nil"
          /\ net' = o
    /\ \E written \in BOOLEAN :
          fileData' = (IF written THEN ResponseContent ELSE fileData)
    /\ httpRequests' = httpRequests + 1
    /\ cacheWrites' = cacheWrites + 1
    /\ issuesJsonBody' = ResponseContent
    /\ err' = "nil"
    /\ cpc' = "done"
    /\ UNCHANGED <<noCacheEnv, fileState, fileAge, cacheHit, cacheAvailable>>
    /\ UNCHANGED <<dateVars, pageVars, statusVars>>

NextCache ==
    CheckCache \/ ReturnFresh \/ FreshUnreadable \/ RequestFatal \/ FetchFails \/ FetchSucceeds

SpecCache == InitCache /\ [][NextCache]_vars

----------------------------------------------------------------------------
(* src/main.go: the page-fetch loop of main                                *)

\* The decoded page responses: the fields of PagedIssues the loop reads,
\* with issues the number of elements of Issues.
PageResponses ==
    [startAt : 0..MaxPageField, total : 0..MaxPageField, issues : 0..MaxPageIssues]

\* src/main.go:258-260
InitPages ==
    /\ DateIdle
    /\ CacheIdle
    /\ StatusIdle
    /\ startAt = 0
    /\ total = 1
    /\ requested = <<>>
    /\ issueCount = 0
    /\ ppc = "loop"

\* startAt after a page: src/main.go:290
NextStartAt(at, page) == page.startAt + page.issues

\* src/main.go:262-297, one iteration with a page fetched and decoded
FetchPage ==
    /\ ppc = "loop"
    /\ startAt < total
    /\ Len(requested) < MaxRequests
    /\ \E page \in PageResponses :
          /\ total' = page.total
          /\ startAt' = NextStartAt(startAt, page)
          /\ issueCount' = issueCount + page.issues
    /\ requested' = Append(requested, startAt)
    /\ UNCHANGED ppc
    /\ UNCHANGED <<dateVars, cacheVars, statusVars>>

\* src/main.go:275-286: cachedGet returns an error or the body does not
\* decode, log.Fatal.
PageFatal ==
    /\ ppc = "loop"
    /\ startAt < total
    /\ Len(requested) < MaxRequests
    /\ requested' = Append(requested, startAt)
    /\ ppc' = "fatal"
    /\ UNCHANGED <<startAt, total, issueCount>>
    /\ UNCHANGED <<dateVars, cacheVars, statusVars>>

\* src/main.go:262: the loop condition fails
PagesDone ==
    /\ ppc = "loop"
    /\ ~(startAt < total)
    /\ ppc' = "done"
    /\ UNCHANGED <<startAt, total, requested, issueCount>>
    /\ UNCHANGED <<dateVars, cacheVars, statusVars>>

NextPages == FetchPage \/ PageFatal \/ PagesDone

SpecPages == InitPages /\ [][NextPages]_vars

----------------------------------------------------------------------------
(* src/main.go: the status scan of main, for one issue                     *)

\* The sequences over S of length at most n.
SeqsUpTo(S, n) == UNION {[1..k -> S] : k \in 0..n}

\* The items of the explored changelogs: HistoryItem, its Field and ToString.
HistoryItems ==
    {[field |-> "status", toString |-> "In Progress"],
     [field |-> "status", toString |-> "In Testing"],
     [field |-> "status", toString |-> ""],
     [field |-> "assignee", toString |-> "In Progress"]}

\* The k-th history entry with the given items: History, with its Created
\* time in seconds and its Author.
HistoryOf(k, items) ==
    [created |-> UnixTime(1540000000 + k * SecondsPerDay), author |-> k, items |-> items]

\* The explored changelogs.
Changelogs ==
    {[k \in 1..Len(hs) |-> HistoryOf(k, hs[k])] :
        hs \in SeqsUpTo(SeqsUpTo(HistoryItems, MaxItems), MaxHistories)}

\* The explored issues: Fields.EpicName and Changelog.Histories.
Issues == [epicName : {"", "Epic"}, histories : Changelogs]

\* The items of a history, each with the history it belongs to.
EntriesOf(h) == [i \in 1..Len(h.items) |-> [history |-> h, item |-> h.items[i]]]

\* The items of a changelog in the order the two nested loops visit them
\* (src/main.go:314-315).
RECURSIVE Entries(_)
Entries(hs) == IF hs = <<>> THEN <<>> ELSE EntriesOf(Head(hs)) \o Entries(Tail(hs))

\* A variant that takes the time of every status change.
NewStatusTimeAlways(e, old) == e.history.created

\* issue.StatusTime after a status item: src/main.go:322-324
NewStatusTime(e, old) ==
    IF e.item.toString = "In Progress" THEN e.history.created ELSE old

InitStatus ==
    /\ DateIdle
    /\ CacheIdle
    /\ PagesIdle
    /\ issue \in Issues
    /\ rest = <<>>
    /\ Status = ""
    /\ StatusTime = ZeroTime
    /\ Assigned = ""
    /\ spc = "issue"

\* src/main.go:308-310: an epic is skipped
SkipEpic ==
    /\ spc = "issue"
    /\ issue.epicName # ""
    /\ spc' = "skipped"
    /\ UNCHANGED <<issue, rest, Status, StatusTime, Assigned>>
    /\ UNCHANGED <<dateVars, cacheVars, pageVars>>

\* src/main.go:312-314: the scan begins
BeginScan ==
    /\ spc = "issue"
    /\ issue.epicName = ""
    /\ StatusTime' = UnixZero
    /\ rest' = Entries(issue.histories)
    /\ spc' = "scan"
    /\ UNCHANGED <<issue, Status, Assigned>>
    /\ UNCHANGED <<dateVars, cacheVars, pageVars>>

\* src/main.go:315-326: an item that is not a status change
ScanOther ==
    /\ spc = "scan"
    /\ rest # <<>>
    /\ Head(rest).item.field # "status"
    /\ rest' = Tail(rest)
    /\ UNCHANGED <<issue, Status, StatusTime, Assigned, spc>>
    /\ UNCHANGED <<dateVars, cacheVars, pageVars>>

\* src/main.go:315-326: a status change
ScanStatus ==
    /\ spc = "scan"
    /\ rest # <<>>
    /\ Head(rest).item.field = "status"
    /\ Status' = Head(rest).item.toString
    /\ StatusTime' = NewStatusTime(Head(rest), StatusTime)
    /\ Assigned' = Head(rest).history.author
    /\ rest' = Tail(rest)
    /\ UNCHANGED <<issue, spc>>
    /\ UNCHANGED <<dateVars, cacheVars, pageVars>>

\* src/main.go:329-331: an issue without a status is left out
LeaveOut ==
    /\ spc = "scan"
    /\ rest = <<>>
    /\ Status = ""
    /\ spc' = "leftout"
    /\ UNCHANGED <<issue, rest, Status, StatusTime, Assigned>>
    /\ UNCHANGED <<dateVars, cacheVars, pageVars>>

\* src/main.go:336-340: the issue is added to the report under its status
Report ==
    /\ spc = "scan"
    /\ rest = <<>>
    /\ Status # ""
    /\ spc' = "reported"
    /\ UNCHANGED <<issue, rest, Status, StatusTime, Assigned>>
    /\ UNCHANGED <<dateVars, cacheVars, pageVars>>

NextStatus == SkipEpic \/ BeginScan \/ ScanOther \/ ScanStatus \/ LeaveOut \/ Report

SpecStatus == InitStatus /\ [][NextStatus]_vars

----------------------------------------------------------------------------
(* Vocabulary of the properties: calendar days counted directly            *)

\* Day numbers (days since 1970-01-01) that are Monday..Friday.
IsBusinessDay(n) == (n + 4) % 7 \notin {Sunday, Saturday}

\* The number of Monday..Friday dates n with a <= n < b.
BusinessDaysIn(a, b) == Cardinality({n \in a..(b - 1) : IsBusinessDay(n)})

\* The local calendar dates of the two instants the call was given.
StartDay == LocalDay(start)
UntilDay == LocalDay(until)

\* <<hour, minute, second>> of t's wall clock.
ClockOf(s) ==
    <<s \div SecondsPerHour, (s % SecondsPerHour) \div SecondsPerMinute, s % SecondsPerMinute>>
WallClock(t) == ClockOf(LocalSeconds(t) % SecondsPerDay)

\* x is anchored: 06:00:00.000000000 on its wall clock.
Anchored(x) == WallClock(x) = <<AnchorHour, 0, 0>> /\ x.nsec = 0

\* x is the normalized date of the instant t.
NormalizedFrom(x, t) == CivilDate(x) = CivilDate(t) /\ Anchored(x) /\ x.loc = t.loc

\* The instant on t's calendar date whose wall clock in location z reads c.
OnDateAt(ymd, c, z) == GoDate(ymd[1], ymd[2], ymd[3], c[1], c[2], c[3], c[4], z)
OnDate(t, c, z) == OnDateAt(CivilDate(t), c, z)

\* Wall clocks <<hour, minute, second, nanosecond>> tried in place of the given one.
OtherClocks == { <<0, 0, 0, 0>>, <<15, 39, 7, 0>>, <<15, 39, 7, 272826000>>,
                 <<23, 59, 59, 999999999>> }

\* The Dates built by the step just taken: the two by DateOf, then each
\* value of the cursor (the start date, then the outputs of NextDate).
BuiltDates == IF pc = "enter" THEN {date, untilDate}
              ELSE IF pc = "loop" THEN {d}
              ELSE {}

----------------------------------------------------------------------------
(* Properties                                                              *)

\* C1 (as claimed): the result depends only on the two local calendar dates:
\* it equals the count for the same two dates expressed in any one shared
\* location.
C1_CrossTimezoneEquivalence ==
    pc = "done" =>
        \A z \in Locations :
            result = BusinessDaysUntil(DateOf(OnDate(start, <<12, 0, 0, 0>>, z)),
                                       DateOf(OnDate(until, <<12, 0, 0, 0>>, z)))

\* C2: when until's calendar date is the start's or an earlier one, the
\* result is exactly 0; the result is never negative.
C2_NotAfterIsZero ==
    pc = "done" => /\ result >= 0
                   /\ (UntilDay <= StartDay => result = 0)

\* C2 witness: same calendar date, until the later instant, different offsets.
C2_Witness ==
    /\ pc = "done"
    /\ UntilDay = StartDay
    /\ Before(start, until)
    /\ ZoneOffset(untilDate) # ZoneOffset(date)

\* C3 (as claimed): from a Friday, in one location, the following Saturday,
\* Sunday and Monday give 1 and the following Tuesday gives 2.
C3_WeekendStraddle ==
    (pc = "done" /\ Weekday(date) = Friday /\ start.loc = until.loc) =>
        /\ (UntilDay - StartDay \in 1..3 => result = 1)
        /\ (UntilDay - StartDay = 4 => result = 2)

\* C4 (as claimed): from a Friday, in one location, 7 calendar days later
\* gives 5 and 14 calendar days later gives 10.
C4_WholeWeeks ==
    (pc = "done" /\ Weekday(date) = Friday /\ start.loc = until.loc) =>
        /\ (UntilDay - StartDay = 7 => result = 5)
        /\ (UntilDay - StartDay = 14 => result = 10)

\* C5 (as claimed): from a Monday..Friday start the result is the number of
\* Monday..Friday dates n with start <= n < until.
C5_WeekdayStartCount ==
    (pc = "done" /\ IsBusinessDay(StartDay)) =>
        result = BusinessDaysIn(StartDay, UntilDay)

\* C6 (as claimed): the result is the number of Monday..Friday dates
\* strictly between start and until.
C6_StrictlyBetween ==
    pc = "done" => /\ result >= 0
                   /\ result = BusinessDaysIn(StartDay + 1, UntilDay)

\* The offset of start's location at 06:00 on until's date exceeds the one
\* at 06:00 on start's date, and until's date is a Monday..Friday date: the
\* cursor reaches until's date and is still before untilTime there.
OffsetGrowsToUntil ==
    /\ IsBusinessDay(UntilDay)
    /\ ZoneOffset(OnDateAt(CivilDate(until), <<AnchorHour, 0, 0, 0>>, start.loc))
         > ZoneOffset(OnDateAt(CivilDate(start), <<AnchorHour, 0, 0, 0>>, start.loc))

\* C6 (amended): the result is non-negative; it is 0 when until is not
\* after start, and otherwise it also counts the step taken from start:
\* exactly one more than the number of Monday..Friday dates strictly between
\* start and until, and exactly two more when until's date is a
\* Monday..Friday date on which the offset of start's location is greater
\* than on start's date.
C6_StepsFromStart ==
    pc = "done" =>
        /\ result >= 0
        /\ (UntilDay <= StartDay => result = 0)
        /\ (UntilDay > StartDay /\ ~OffsetGrowsToUntil =>
               result = BusinessDaysIn(StartDay + 1, UntilDay) + 1)
        /\ (UntilDay > StartDay /\ OffsetGrowsToUntil =>
               result = BusinessDaysIn(StartDay + 1, UntilDay) + 2)

\* C6 witness: Monday to Tuesday gives 1 although no date lies strictly between.
C6_Witness ==
    /\ pc = "done"
    /\ Weekday(date) = Monday
    /\ UntilDay = StartDay + 1
    /\ result = 1

\* C7: the time of day of either instant does not matter: any other wall
\* clock on the same calendar date in the same location gives the same count.
C7_ClockIndependence ==
    pc = "done" =>
        \A c \in OtherClocks :
            LET u2 == OnDate(until, c, until.loc)
                s2 == OnDate(start, c, start.loc)
            IN /\ (CivilDate(u2) = CivilDate(until) =>
                      BusinessDaysUntil(date, DateOf(u2)) = result)
               /\ (CivilDate(s2) = CivilDate(start) =>
                      BusinessDaysUntil(DateOf(s2), untilDate) = result)

\* C7 witness: a run with a positive count whose two instants differ from
\* the substituted ones in their sub-second part.
C7_Witness ==
    /\ pc = "done"
    /\ result > 0
    /\ start.nsec # 0
    /\ WallClock(until) # WallClock(start)
    /\ start.loc # until.loc

\* C8: every Date built by DateOf or NextDate reads 06:00:00.0 in the
\* location of the instant it was built from, and DateOf keeps the
\* instant's year, month and day.
C8_DateInvariant ==
    /\ (pc # "call" => NormalizedFrom(date, start) /\ NormalizedFrom(untilDate, until))
    /\ \A x \in BuiltDates : Anchored(x) /\ Anchored(NextDate(x)) /\ NextDate(x).loc = x.loc
    /\ (pc \in {"loop", "done"} => d.loc = start.loc)

\* C8 witness: the cursor has been advanced by NextDate, from a start whose
\* normalized date lies across a zone transition from the instant itself.
C8_Witness ==
    /\ pc = "loop"
    /\ days >= 1
    /\ ZoneOffset(date) # ZoneOffset(start)

\* C9: NextDate gives the normalized date exactly one calendar day later.
C9_NextDateIsNextDay ==
    \A x \in BuiltDates :
        /\ LocalDay(NextDate(x)) = LocalDay(x) + 1
        /\ Anchored(NextDate(x))
        /\ NextDate(x).loc = x.loc

\* C9 witness: the next date of the cursor (a Saturday start) lies across a
\* zone transition, so the local day in between is 23 or 25 hours long.
C9_Witness ==
    /\ pc = "loop"
    /\ NextDate(d).sec - d.sec # SecondsPerDay

\* C10: normalising a Date again gives the same Date, for the output of
\* DateOf and for the output of NextDate.
C10_Idempotent ==
    \A x \in BuiltDates :
        /\ DateOf(x) = x
        /\ DateOf(NextDate(x)) = NextDate(x)

\* C10 witness: the cursor is an output of NextDate, in a zone other than
\* the one the start instant was in.
C10_Witness ==
    /\ pc = "loop"
    /\ days >= 1
    /\ d # date
    /\ ZoneOffset(d) # ZoneOffset(start)

\* The calendar days the cursor must move in one iteration, counted from
\* the day number n it stands on: onto a Saturday, two more to Monday; onto
\* a Sunday, one more to Monday; otherwise the next day.
CursorMove(n) == IF (n + 1 + 4) % 7 = Saturday THEN 3
                 ELSE IF (n + 1 + 4) % 7 = Sunday THEN 2
                 ELSE 1

\* C11: at every evaluation of the loop condition after the first, the
\* cursor is a Monday..Friday date; each iteration adds one to days and
\* moves the cursor to the next day, or from a Saturday or Sunday it
\* advanced onto on to the Monday; days is the number of iterations
\* completed (0 on entry, one more after each).
C11_CursorOnWeekdays ==
    /\ [](pc = "loop" /\ days >= 1 => IsBusinessDay(LocalDay(d)))
    /\ [][pc = "enter" => days' = 0]_vars
    /\ [][(pc = "loop" /\ pc' = "loop") =>
            /\ days' = days + 1
            /\ LocalDay(d') = LocalDay(d) + CursorMove(LocalDay(d))
            /\ Weekday(d') \in Monday..Friday]_vars

\* C11 witness: an iteration from a Friday advanced onto the Saturday and
\* then twice more, so the loop condition is evaluated on the Monday.
C11_Witness ==
    /\ pc = "loop"
    /\ days >= 2
    /\ Weekday(d) = Monday
    /\ LocalDay(d) - LocalDay(date) >= 3

\* The larger of two numbers.
Max(a, b) == IF a >= b THEN a ELSE b

\* C12 (as claimed): the loop runs at most as many iterations as there are
\* calendar days from start to the aligned until (none when the aligned
\* until is not later).
C12_IterationBound ==
    pc \in {"loop", "done"} =>
        days <= Max(0, LocalDay(untilTime) - LocalDay(date))

\* The day number of the Monday after the Saturday or Sunday n.
MondayAfter(n) == IF (n + 4) % 7 = Saturday THEN n + 2 ELSE n + 1

\* C13 (as claimed): from a Saturday or Sunday start and a later until, the
\* result is 1 plus the number of Monday..Friday dates from the Monday
\* after start up to, not including, until.
C13_WeekendStart ==
    (pc = "done" /\ ~IsBusinessDay(StartDay) /\ UntilDay > StartDay) =>
        result = 1 + BusinessDaysIn(MondayAfter(StartDay), UntilDay)

----------------------------------------------------------------------------
(* Properties of cachedGet                                                 *)

\* Caching is enabled: JIRA_NOCACHE is unset or 0.
CachingEnabled == noCacheEnv \in {"", "0"}

\* The network fetch was made and failed: a transport error, a status of
\* 300 or more, or a body that could not be read.
FetchFailed ==
    \/ net.kind = "transport"
    \/ net.kind = "response" /\ (net.status >= 300 \/ ~net.readOk)

\* C14: with caching enabled and a readable cache file older than one
\* hour, a failed fetch returns the cached content and a nil error; an
\* error is returned only after a failed fetch when no cached content could
\* be read.
C14_StaleFallback ==
    cpc = "done" =>
        /\ (CachingEnabled /\ fileState = "readable" /\ fileAge > 60 /\ FetchFailed) =>
              (issuesJsonBody = CachedContent /\ err = "nil")
        /\ err # "nil" =>
              /\ FetchFailed
              /\ issuesJsonBody = NilBody
              /\ ~(GetEnvInt(noCacheEnv, 0) = 0 /\ fileState = "readable")

\* C14 witness: a stale readable file, status 300, the cached content returned.
C14_Witness ==
    /\ cpc = "done"
    /\ CachingEnabled
    /\ fileState = "readable"
    /\ fileAge > 60
    /\ net.kind = "response"
    /\ net.status = 300
    /\ issuesJsonBody = CachedContent
    /\ err = "nil"

\* C17: with caching enabled and a readable cache file modified less than
\* one hour ago, the file's content is returned with no HTTP request and no
\* cache write; with JIRA_NOCACHE a non-zero integer, cached content is
\* never returned, and a request is always made.
C17_FreshShortCircuit ==
    cpc \in {"done", "fatal"} =>
        /\ (CachingEnabled /\ fileState = "readable" /\ fileAge < 60) =>
              /\ cpc = "done"
              /\ issuesJsonBody = CachedContent
              /\ err = "nil"
              /\ httpRequests = 0
              /\ cacheWrites = 0
              /\ fileData = CachedContent
        /\ noCacheEnv \in {"1", "-1"} =>
              /\ issuesJsonBody # CachedContent
              /\ net # NoNet

\* C17 witness: a fresh readable file answered the call without a request.
C17_Witness ==
    /\ cpc = "done"
    /\ CachingEnabled
    /\ fileState = "readable"
    /\ fileAge < 60
    /\ httpRequests = 0
    /\ issuesJsonBody = CachedContent

----------------------------------------------------------------------------
(* Properties of the page-fetch loop                                       *)

\* C15 (as claimed): whatever pages are decoded, the loop never requests
\* the same startAt twice (and so, the positions being bounded by total,
\* reaches startAt >= total).
C15_NoRepeatedRequest ==
    \A i, j \in 1..Len(requested) : i # j => requested[i] # requested[j]

----------------------------------------------------------------------------
(* Properties of the status scan                                           *)

\* The history entries of the issue that hold an item satisfying P, by index.
HistoriesWith(P(_)) ==
    {k \in 1..Len(issue.histories) :
        \E i \in 1..Len(issue.histories[k].items) : P(issue.histories[k].items[i])}

IsStatusItem(it) == it.field = "status"

IsInProgressItem(it) == it.field = "status" /\ it.toString = "In Progress"

\* The largest element of a non-empty set of numbers.
Largest(S) == CHOOSE k \in S : \A j \in S : j <= k

\* The last item of history k that is a status change.
LastStatusItem(k) ==
    issue.histories[k].items[
        Largest({i \in 1..Len(issue.histories[k].items) :
                    IsStatusItem(issue.histories[k].items[i])})]

\* The scan of the issue is over.
Scanned == spc \in {"leftout", "reported"}

\* C16 (as claimed): Status is the ToString of the last status item and
\* StatusTime is the creation time of the history entry holding it, the
\* entry that put the issue into its current Status; an issue with no
\* status item is left out.
C16_StatusSinceCurrent ==
    Scanned =>
        IF HistoriesWith(IsStatusItem) = {}
        THEN spc = "leftout"
        ELSE /\ Status = LastStatusItem(Largest(HistoriesWith(IsStatusItem))).toString
             /\ StatusTime = issue.histories[Largest(HistoriesWith(IsStatusItem))].created

\* C16 (amended): Status is the ToString of the last status item;
\* StatusTime is the creation time of the last history entry holding a
\* status item whose ToString is "In Progress", and time.Unix(0, 0) when
\* there is none; the issue is left out exactly when Status is empty, as it
\* is with no status item; an epic is skipped with nothing computed, its
\* StatusTime still the zero time.Time.
C16_StatusSinceInProgress ==
    /\ Scanned =>
          /\ Status = (IF HistoriesWith(IsStatusItem) = {} THEN ""
                       ELSE LastStatusItem(Largest(HistoriesWith(IsStatusItem))).toString)
          /\ StatusTime = (IF HistoriesWith(IsInProgressItem) = {} THEN UnixZero
                           ELSE issue.histories[Largest(HistoriesWith(IsInProgressItem))].created)
          /\ (spc = "leftout") = (Status = "")
          /\ issue.epicName = ""
    /\ spc = "skipped" =>
          /\ issue.epicName # ""
          /\ Status = ""
          /\ StatusTime = ZeroTime

\* C16 witness: an issue reported under a status it entered after it was
\* In Progress, with the time of the In Progress entry.
C16_Witness ==
    /\ spc = "reported"
    /\ Status = "In Testing"
    /\ Len(issue.histories) >= 2
    /\ StatusTime = issue.histories[1].created

====
